---------------------------- MODULE Spec2Model ----------------------------
(***************************************************************************)
(* Model of the document ingestion and retrieval pipeline of rag-app:      *)
(* the Qdrant gateway (src/lib/qdrant.ts), the RAG query engine            *)
(* (src/lib/rag-system.ts) and the HTTP handlers under src/app/api.        *)
(*                                                                         *)
(* Texts are sequences of one-character strings, so that toLowerCase,      *)
(* includes and slice are computed character by character.  Relevance      *)
(* scores are hundredths (70 stands for 0.7).  Document ids produced by         *)
(* uuidv4() are fresh positive integers; 0 stands for a malformed id.      *)
(***************************************************************************)
EXTENDS Integers, Sequences, FiniteSets, TLC

\* ------------------------------------------------------------------ bounds
MaxDocs == 2
MaxChunks == 2

\* ------------------------------------------------------- literal texts
NoInfoAnswer ==
    <<"I"," ","d","o","n","'","t"," ","h","a","v","e"," ","a","n","y"," ","r","e","l","e","v","a","n","t"," ","i","n","f","o","r","m","a","t","i","o","n"," ","i","n"," ","y","o","u","r"," ","u","p","l","o","a","d","e","d"," ","d","o","c","u","m","e","n","t","s"," ","t","o"," ","a","n","s","w","e","r"," ","t","h","i","s"," ","q","u","e","s","t","i","o","n","."," ","P","l","e","a","s","e"," ","a","s","k"," ","q","u","e","s","t","i","o","n","s"," ","r","e","l","a","t","e","d"," ","t","o"," ","t","h","e"," ","d","o","c","u","m","e","n","t","s",","," ","n","o","t","e","s",","," ","o","r"," ","w","e","b","s","i","t","e","s"," ","y","o","u","'","v","e"," ","a","d","d","e","d"," ","t","o"," ","y","o","u","r"," ","k","n","o","w","l","e","d","g","e"," ","b","a","s","e",".">>
PhraseNotEnough ==
    <<"d","o","n","'","t"," ","h","a","v","e"," ","e","n","o","u","g","h"," ","i","n","f","o","r","m","a","t","i","o","n">>
PhraseDontKnow ==
    <<"d","o","n","'","t"," ","k","n","o","w">>
Ellipsis ==
    <<".",".",".">>
ErrorPrefix ==
    <<"E","r","r","o","r",":"," ">>
RAGFailedPrefix ==
    <<"R","A","G"," ","q","u","e","r","y"," ","f","a","i","l","e","d",":"," ">>
MsgKeyRequired ==
    <<"O","p","e","n","A","I"," ","A","P","I"," ","k","e","y"," ","i","s"," ","r","e","q","u","i","r","e","d">>
MsgStoreDown ==
    <<"f","e","t","c","h"," ","f","a","i","l","e","d">>
MsgEmbedFailed ==
    <<"4","0","1"," ","I","n","c","o","r","r","e","c","t"," ","A","P","I"," ","k","e","y"," ","p","r","o","v","i","d","e","d">>
MsgGenFailed ==
    <<"4","2","9"," ","R","a","t","e"," ","l","i","m","i","t"," ","r","e","a","c","h","e","d">>
SkyNote ==
    <<"T","h","e"," ","s","k","y"," ","i","s"," ","b","l","u","e",".">>
SeaNote ==
    <<"S","e","a"," ","s","a","l","t",".">>
AnsBlue ==
    <<"T","h","e"," ","s","k","y"," ","i","s"," ","b","l","u","e",".">>
AnsRefuse ==
    <<"I"," ","d","o","n","'","t"," ","h","a","v","e"," ","e","n","o","u","g","h"," ","i","n","f","o","r","m","a","t","i","o","n"," ","i","n"," ","y","o","u","r"," ","u","p","l","o","a","d","e","d"," ","d","o","c","u","m","e","n","t","s"," ","t","o"," ","a","n","s","w","e","r"," ","t","h","i","s"," ","q","u","e","s","t","i","o","n",".">>
AnsShout ==
    <<"I"," ","D","O","N","'","T"," ","K","N","O","W",".">>
AnsMixed ==
    <<"S","o","r","r","y",","," ","I"," ","D","o","n","'","t"," ","K","n","o","w"," ","t","h","a","t",".">>
AnsFormal ==
    <<"I"," ","d","o"," ","n","o","t"," ","k","n","o","w",".">>
AnsNear ==
    <<"I"," ","d","o","n","'","t"," ","k","n","o">>
IncSky ==
    <<"T","h","e"," ","s","k","y">>
IncBlue ==
    <<" ","i","s"," ","b","l","u","e",".">>
RoseNote ==
    <<"R","o","s","e","s"," ","a","r","e"," ","r","e","d",".">>
GrassNote ==
    <<"G","r","a","s","s"," ","i","s"," ","g","r","e","e","n",".">>
HomePage ==
    <<"W","e","l","c","o","m","e"," ","h","o","m","e",".">>
AboutPage ==
    <<"A","b","o","u","t"," ","u","s",".">>
ContactPage ==
    <<"C","o","n","t","a","c","t"," ","u","s",".">>
MsgNoCollection ==
    <<"N","o","t"," ","f","o","u","n","d",":"," ","C","o","l","l","e","c","t","i","o","n"," ","`","u","s","e","r","_","d","o","c","u","m","e","n","t","s","`"," ","d","o","e","s","n","'","t"," ","e","x","i","s","t","!">>
MsgNoContent ==
    <<"F","a","i","l","e","d"," ","t","o"," ","p","r","o","c","e","s","s"," ","w","e","b","s","i","t","e"," ","U","R","L",":"," ","N","o"," ","c","o","n","t","e","n","t"," ","c","o","u","l","d"," ","b","e"," ","e","x","t","r","a","c","t","e","d"," ","f","r","o","m"," ","t","h","e"," ","U","R","L">>
MsgKeyRequiredForDocs ==
    <<"O","p","e","n","A","I"," ","A","P","I"," ","k","e","y"," ","i","s"," ","r","e","q","u","i","r","e","d"," ","f","o","r"," ","d","o","c","u","m","e","n","t"," ","p","r","o","c","e","s","s","i","n","g","."," ","P","l","e","a","s","e"," ","p","r","o","v","i","d","e"," ","a","n"," ","A","P","I"," ","k","e","y"," ","o","r"," ","s","e","t"," ","O","P","E","N","A","I","_","A","P","I","_","K","E","Y"," ","e","n","v","i","r","o","n","m","e","n","t"," ","v","a","r","i","a","b","l","e",".">>
MsgInvalidUrl ==
    <<"I","n","v","a","l","i","d"," ","U","R","L"," ","f","o","r","m","a","t"," ","p","r","o","v","i","d","e","d">>
UrlFailedPrefix ==
    <<"F","a","i","l","e","d"," ","t","o"," ","p","r","o","c","e","s","s"," ","w","e","b","s","i","t","e"," ","U","R","L",":"," ">>
MsgNoContentRaw ==
    <<"N","o"," ","c","o","n","t","e","n","t"," ","c","o","u","l","d"," ","b","e"," ","e","x","t","r","a","c","t","e","d"," ","f","r","o","m"," ","t","h","e"," ","U","R","L">>
MsgKeyRequiredForStore ==
    <<"O","p","e","n","A","I"," ","A","P","I"," ","k","e","y"," ","i","s"," ","r","e","q","u","i","r","e","d"," ","f","o","r"," ","v","e","c","t","o","r"," ","s","t","o","r","e"," ","o","p","e","r","a","t","i","o","n","s","."," ","P","l","e","a","s","e"," ","p","r","o","v","i","d","e"," ","a","n"," ","A","P","I"," ","k","e","y"," ","o","r"," ","s","e","t"," ","O","P","E","N","A","I","_","A","P","I","_","K","E","Y"," ","e","n","v","i","r","o","n","m","e","n","t"," ","v","a","r","i","a","b","l","e",".">>
MsgCollectionExists ==
    <<"W","r","o","n","g"," ","i","n","p","u","t",":"," ","C","o","l","l","e","c","t","i","o","n"," ","u","s","e","r","_","d","o","c","u","m","e","n","t","s"," ","a","l","r","e","a","d","y"," ","e","x","i","s","t","s","!">>

\* --------------------------------------------------------- text helpers
UpperCase ==
    <<"A","B","C","D","E","F","G","H","I","J","K","L","M","N","O","P","Q","R","S","T","U","V","W","X","Y","Z">>
LowerCase ==
    <<"a","b","c","d","e","f","g","h","i","j","k","l","m","n","o","p","q","r","s","t","u","v","w","x","y","z">>
WhiteSpace == {" "}

Range(s) == {s[i] : i \in 1..Len(s)}

Min(a, b) == IF a < b THEN a ELSE b

\* the lower-case letter of every upper-case letter
LowerOf ==
    [c \in Range(UpperCase) |-> LowerCase[CHOOSE i \in 1..Len(UpperCase) : UpperCase[i] = c]]

ToLowerChar(c) == IF c \in DOMAIN LowerOf THEN LowerOf[c] ELSE c

\* String.prototype.toLowerCase
ToLowerCase(s) == [i \in 1..Len(s) |-> ToLowerChar(s[i])]

RECURSIVE IndexOfFrom(_, _, _)
\* first position >= i at which p occurs in s, 0 if none
IndexOfFrom(s, p, i) ==
    IF i + Len(p) - 1 > Len(s) THEN 0
    ELSE IF \A j \in 1..Len(p) : s[i + j - 1] = p[j] THEN i
    ELSE IndexOfFrom(s, p, i + 1)

\* String.prototype.includes
Includes(s, p) == IndexOfFrom(s, p, 1) # 0

\* String.prototype.slice(0, n)
Slice(s, n) == SubSeq(s, 1, Min(n, Len(s)))

\* String.prototype.trim().length === 0
IsBlank(s) == \A i \in 1..Len(s) : s[i] \in WhiteSpace

\* object spread {...m, [k]: v}
Put(m, k, v) == [f \in (DOMAIN m) \cup {k} |-> IF f = k THEN v ELSE m[f]]

\* object spread {...m1, ...m2}
Merge(m1, m2) ==
    [f \in (DOMAIN m1) \cup (DOMAIN m2) |-> IF f \in DOMAIN m2 THEN m2[f] ELSE m1[f]]

Has(m, k) == k \in DOMAIN m

RECURSIVE SeqFilter(_, _)
\* Array.prototype.filter with the predicate given as the set of kept values
SeqFilter(s, keep) ==
    IF s = <<>> THEN <<>>
    ELSE IF Head(s) \in keep THEN <<Head(s)>> \o SeqFilter(Tail(s), keep)
    ELSE SeqFilter(Tail(s), keep)


\* ------------------------------------------------------- input domains
Users == {"u1", "u2"}
\* auth() resolved no userId
NoUser == ""
\* a missing (undefined or empty) API key
NoKey == ""
UserKey == "sk-user"
EnvKey == "sk-env"
SkyQuestion == "What color is the sky?"
SeaQuestion == "How salty is the sea?"
NoteParagraphs == <<SkyNote, SeaNote, RoseNote>>
PagesText == <<HomePage, AboutPage, ContactPage>>
\* a malformed document id; uuidv4() values are 1, 2, ...
BadId == 0
\* an absent (undefined) document id
NoDocId == -1
DocIds == 1..MaxDocs

\* the n-paragraph input text
TextOf(n) == [i \in 1..n |-> NoteParagraphs[((i - 1) % Len(NoteParagraphs)) + 1]]
\* the text a PDF or DOCX loader extracts from the uploaded file
FileText == <<GrassNote>>
EmptyText == <<>>
BlankText == <<<<" ">>>>

\* ---------------------------------------------------- external services
\* cosine relevance of a stored content for a question, in hundredths
Score(q, c) ==
    IF q = SkyQuestion
    THEN CASE c = SkyNote -> 92 [] c = SeaNote -> 35 [] c = RoseNote -> 41
           [] c = GrassNote -> 55 [] c = HomePage -> 30 [] c = AboutPage -> 24
           [] OTHER -> 20
    ELSE CASE c = SkyNote -> 62 [] c = SeaNote -> 95 [] c = RoseNote -> 28
           [] c = GrassNote -> 44 [] c = HomePage -> 33 [] c = AboutPage -> 21
           [] OTHER -> 18

\* RecursiveCharacterTextSplitter.splitDocuments on one Document: one chunk per
\* paragraph, blank chunks dropped; every chunk inherits the document's metadata
SplitDocuments(text, metadata) ==
    LET kept == SeqFilter(text, {p \in Range(text) : ~IsBlank(p)})
    IN [i \in 1..Len(kept) |-> [pageContent |-> kept[i], metadata |-> metadata]]

\* candidate texts of the chat model
GeneratedAnswers == {AnsBlue, AnsRefuse, AnsShout, AnsMixed, AnsFormal, AnsNear}

VARIABLES
    collectionExists,   \* the Qdrant collection user_documents exists
    envApiKey,          \* process.env.OPENAI_API_KEY
    store,              \* payloads of the points stored in the collection
    nextId,             \* next value uuidv4() hands out as a document id
    last,               \* outcome of the most recent operation
    indexes,            \* payload fields of the collection that have an index
    inflight            \* calls that run concurrently, each with its position

vars == <<collectionExists, envApiKey, store, nextId, last, indexes, inflight>>

\* the fields initializeCollection creates a payload index for
PayloadIndexes == {"metadata.userId", "metadata.contentType", "metadata.documentId"}

Init ==
    /\ collectionExists = FALSE
    /\ envApiKey \in {NoKey, EnvKey}
    /\ store = {}
    /\ nextId = 1
    /\ last = [op |-> "init"]
    /\ indexes = {}
    /\ inflight = <<>>

\* ------------------------------------------------- vector store gateway
\* a Qdrant filter {must: [{key: "metadata.<k>", match: {value: v}}, ...]} is the
\* set of its <<k, v>> conditions; an absent filter is the empty set
NoFilter == {}
UserFilterDropped(userId) == NoFilter
UserFilter(userId) == {<<"userId", userId>>}
UserDocFilterDocOnly(userId, documentId) == {<<"documentId", documentId>>}
UserDocFilter(userId, documentId) == {<<"userId", userId>>, <<"documentId", documentId>>}

MatchesFilter(point, filter) ==
    \A c \in filter : Has(point.metadata, c[1]) /\ point.metadata[c[1]] = c[2]

Matching(points, filter) == {p \in points : MatchesFilter(p, filter)}

\* qdrantClient.search: the limit best-scoring points that match the filter,
\* best first; ties are broken arbitrarily
RECURSIVE Ranked(_, _, _)
Ranked(cand, q, n) ==
    IF n = 0 \/ cand = {} THEN {<<>>}
    ELSE LET best == {p \in cand : \A o \in cand : Score(q, p.content) >= Score(q, o.content)}
         IN UNION {{<<p>> \o r : r \in Ranked(cand \ {p}, q, n - 1)} : p \in best}

QdrantSearch(points, q, limit, filter) == Ranked(Matching(points, filter), q, limit)

\* VectorStore.similaritySearch: the store's default filter is not a QdrantLibArgs
\* option, so only the filter of the call reaches qdrantClient.search; the result
\* Documents carry pageContent and metadata, not the score
SimilaritySearch(points, q, k, filter) ==
    {[i \in 1..Len(r) |-> [pageContent |-> r[i].content, metadata |-> r[i].metadata]] :
        r \in QdrantSearch(points, q, k, filter)}

\* initializeCollection: throws when the store cannot be reached, otherwise the
\* collection exists afterwards
InitializeCollectionThrows(fault) == fault = "store"

\* getVectorStore: the resolved key, NoKey when it throws for lack of one
FinalApiKey(apiKey, env) == IF apiKey # NoKey THEN apiKey ELSE env

DocumentsWithUserIdSwapped(documents, userId) ==
    [i \in 1..Len(documents) |->
        [pageContent |-> documents[i].pageContent,
         metadata |-> Merge([userId |-> userId], documents[i].metadata)]]

\* createVectorStoreFromDocuments, the stamping map: {...doc.metadata, userId}
DocumentsWithUserId(documents, userId) ==
    [i \in 1..Len(documents) |->
        [pageContent |-> documents[i].pageContent,
         metadata |-> Put(documents[i].metadata, "userId", userId)]]

CreateVectorStorePartial(documents, userId, apiKey, env, fault) ==
    IF InitializeCollectionThrows(fault)
    THEN [ok |-> FALSE, provisioned |-> FALSE, points |-> {}, error |-> MsgStoreDown]
    ELSE LET docs == DocumentsWithUserId(documents, userId)
             finalApiKey == FinalApiKey(apiKey, env)
             payloads(n) == {[content |-> docs[i].pageContent, metadata |-> docs[i].metadata] :
                                i \in 1..n}
         IN IF finalApiKey = NoKey
            THEN [ok |-> FALSE, provisioned |-> TRUE, points |-> {},
                  error |-> MsgKeyRequiredForDocs]
            ELSE IF Len(docs) > 0 /\ fault = "embed"
            THEN [ok |-> FALSE, provisioned |-> TRUE, points |-> payloads(Len(docs) - 1),
                  error |-> MsgEmbedFailed]
            ELSE IF Len(docs) > 0 /\ fault = "upsert"
            THEN [ok |-> FALSE, provisioned |-> TRUE, points |-> payloads(Len(docs) - 1),
                  error |-> MsgStoreDown]
            ELSE [ok |-> TRUE, provisioned |-> TRUE, error |-> <<>>,
                  points |-> payloads(Len(docs))]

\* createVectorStoreFromDocuments: the outcome of the call.  The embeddings of all
\* chunks are computed first and the points are then written by a single upsert;
\* an empty chunk list makes neither call
CreateVectorStoreFromDocuments(documents, userId, apiKey, env, fault) ==
    IF InitializeCollectionThrows(fault)
    THEN [ok |-> FALSE, provisioned |-> FALSE, points |-> {}, error |-> MsgStoreDown]
    ELSE LET docs == DocumentsWithUserId(documents, userId)
             finalApiKey == FinalApiKey(apiKey, env)
         IN IF finalApiKey = NoKey
            THEN [ok |-> FALSE, provisioned |-> TRUE, points |-> {},
                  error |-> MsgKeyRequiredForDocs]
            ELSE IF Len(docs) > 0 /\ fault = "embed"
            THEN [ok |-> FALSE, provisioned |-> TRUE, points |-> {}, error |-> MsgEmbedFailed]
            ELSE IF Len(docs) > 0 /\ fault = "upsert"
            THEN [ok |-> FALSE, provisioned |-> TRUE, points |-> {}, error |-> MsgStoreDown]
            ELSE [ok |-> TRUE, provisioned |-> TRUE, error |-> <<>>,
                  points |-> {[content |-> docs[i].pageContent, metadata |-> docs[i].metadata] :
                                 i \in 1..Len(docs)}]

DeleteFilterUserOnly(userId, documentId) == UserFilter(userId)

\* deleteUserDocuments: the filter of the delete; the documentId is optional
DeleteFilter(userId, documentId) ==
    IF documentId # NoDocId THEN UserDocFilter(userId, documentId) ELSE UserFilter(userId)

\* deleteUserDocuments: the points that remain
RemainingAfterDelete(points, userId, documentId) ==
    points \ Matching(points, DeleteFilter(userId, documentId))

\* ------------------------------------------------- content normalizers
NoTags == <<>>
PdfType == "application/pdf"
DocxType == "application/vnd.openxmlformats-officedocument.wordprocessingml.document"
PlainType == "text/plain"
MarkdownType == "text/markdown"
SUPPORTED_FILE_TYPES == {PdfType, PlainType, MarkdownType, DocxType}
FileName == "sky.txt"

\* metadata the PDF/DOCX loader attaches to the text it extracts: an open map
ExtractorMetadata == {[source |-> "blob"]} \cup {[source |-> "blob", userId |-> u] : u \in Users}

\* the chunk list of a ProcessedDocument: {...chunk.metadata, documentId, chunkIndex, ...extra}
StampChunks(chunks, documentId, extra) ==
    [i \in 1..Len(chunks) |->
        [pageContent |-> chunks[i].pageContent,
         metadata |-> Merge(Merge(chunks[i].metadata,
                                  [documentId |-> documentId, chunkIndex |-> i - 1]),
                            extra)]]

\* processTextNote(content, title): title || "User Note"
ProcessTextNote(content, title, documentId) ==
    LET t == IF title # "" THEN title ELSE "User Note"
        chunks == SplitDocuments(content, [source |-> "user_input", title |-> t])
    IN [id |-> documentId, title |-> t, contentType |-> "note",
        chunks |-> StampChunks(chunks, documentId, <<>>)]

\* processPDFFile / processDocxFile(file, title): title || file.name
ProcessBinaryFile(text, loaderMetadata, fileName, fileType, title, documentId) ==
    LET chunks == SplitDocuments(text, loaderMetadata)
    IN [id |-> documentId, title |-> (IF title # "" THEN title ELSE fileName),
        contentType |-> "document",
        chunks |-> StampChunks(chunks, documentId,
                               [fileName |-> fileName, fileType |-> fileType])]

\* the routes' tag step: every chunk gets {...chunk.metadata, tags}
ApplyTags(chunks, tags) ==
    [i \in 1..Len(chunks) |->
        [pageContent |-> chunks[i].pageContent,
         metadata |-> Put(chunks[i].metadata, "tags", tags)]]

\* ---------------------------------------------------- HTTP responses
Unauthorized(op) == [op |-> op, user |-> NoUser, status |-> 401]
BadRequest(op, u) == [op |-> op, user |-> u, status |-> 400]

\* what the request submitted: the text of the note, of the file or of the url field,
\* and its kind ("note", the file's MIME type, "url")
Submitted(kind, text) == [kind |-> kind, text |-> text]

\* the 200 or 500 response of an ingestion route after the store call; request, chunks
\* and written record what was submitted, processed and stored
IngestResponse(op, u, doc, chunks, out, request) ==
    IF out.ok
    THEN [op |-> op, user |-> u, status |-> 200, documentId |-> doc.id,
          contentType |-> doc.contentType, chunksCount |-> Len(chunks),
          chunks |-> chunks, written |-> out.points, request |-> request]
    ELSE [op |-> op, user |-> u, status |-> 500, documentId |-> doc.id,
          details |-> out.error, chunks |-> chunks, written |-> out.points,
          request |-> request]

\* the state change shared by the three ingestion routes once the document is processed
StoreProcessedDocument(op, u, doc, chunks, apiKey, fault, request) ==
    LET out == CreateVectorStoreFromDocuments(chunks, u, apiKey, envApiKey, fault)
    IN /\ collectionExists' = (collectionExists \/ out.provisioned)
       /\ store' = store \cup out.points
       /\ nextId' = nextId + 1
       /\ last' = IngestResponse(op, u, doc, chunks, out, request)
       /\ UNCHANGED envApiKey

Respond(resp) ==
    /\ last' = resp
    /\ UNCHANGED <<collectionExists, envApiKey, store, nextId>>

IngestFaults == {"none", "store", "embed", "upsert"}

\* POST /api/documents/note
PostNote(u, content, tags, apiKey, fault) ==
    IF u = NoUser THEN Respond(Unauthorized("note"))
    ELSE IF content = <<>> THEN Respond(BadRequest("note", u))
    ELSE IF \A i \in 1..Len(content) : IsBlank(content[i]) THEN Respond(BadRequest("note", u))
    ELSE IF apiKey = NoKey
    THEN Respond(Merge(BadRequest("note", u), [error |-> MsgKeyRequired]))
    ELSE /\ nextId <= MaxDocs
         /\ LET doc == ProcessTextNote(content, "", nextId)
                chunks == IF Len(tags) > 0 THEN ApplyTags(doc.chunks, tags) ELSE doc.chunks
            IN StoreProcessedDocument("note", u, doc, chunks, apiKey, fault, Submitted("note", content))

\* POST /api/documents/upload
PostUpload(u, fileType, text, loaderMetadata, tags, apiKey, fault) ==
    IF u = NoUser THEN Respond(Unauthorized("upload"))
    ELSE IF fileType \notin SUPPORTED_FILE_TYPES THEN Respond(BadRequest("upload", u))
    ELSE /\ nextId <= MaxDocs
         /\ LET doc == IF fileType = PdfType
                       THEN ProcessBinaryFile(text, loaderMetadata, FileName, "pdf", FileName, nextId)
                       ELSE IF fileType \in {PlainType, MarkdownType}
                       THEN ProcessTextNote(text, FileName, nextId)
                       ELSE ProcessBinaryFile(text, loaderMetadata, FileName, "docx", FileName, nextId)
                chunks == IF tags # NoTags THEN ApplyTags(doc.chunks, tags) ELSE doc.chunks
            IN StoreProcessedDocument("upload", u, doc, chunks, apiKey, fault, Submitted(fileType, text))

\* ------------------------------------------------------ website loader
MaxPages == 2
DefaultMaxPages == 50
SeedUrl == "https://example.com/"
PageUrls == <<"https://example.com/", "https://example.com/about", "https://example.com/contact">>
\* what the crawl of the seed can load: its first n pages, page i holding one paragraph
Crawl(n) ==
    [i \in 1..n |-> [source |-> PageUrls[((i - 1) % Len(PageUrls)) + 1],
                     text |-> <<PagesText[((i - 1) % Len(PagesText)) + 1]>>]]
\* the url field of the request: empty, blank, unparsable, parsable
GoodUrl == [text |-> <<"a",".","b">>, wellFormed |-> TRUE]
BadUrls ==
    {[text |-> <<>>, wellFormed |-> FALSE], [text |-> <<" ">>, wellFormed |-> FALSE],
     [text |-> <<"a"," ","b">>, wellFormed |-> FALSE]}

RECURSIVE PageChunksIndexedPerPage(_, _, _, _)
PageChunksIndexedPerPage(limitedDocs, docIndex, allChunks, documentId) ==
    IF docIndex >= Len(limitedDocs) THEN allChunks
    ELSE LET doc == limitedDocs[docIndex + 1]
             pageChunks == SplitDocuments(doc.text, [source |-> doc.source])
             added == [c \in 1..Len(pageChunks) |->
                          [pageContent |-> pageChunks[c].pageContent,
                           metadata |-> Merge(pageChunks[c].metadata,
                              [documentId |-> documentId,
                               chunkIndex |-> c - 1,
                               pageIndex |-> docIndex,
                               pageChunkIndex |-> c - 1,
                               url |-> doc.source,
                               baseUrl |-> SeedUrl])]]
         IN PageChunksIndexedPerPage(limitedDocs, docIndex + 1, allChunks \o added,
                                     documentId)

RECURSIVE PageChunks(_, _, _, _)
\* the loop over limitedDocs, from page docIndex on, given the chunks collected so far
PageChunks(limitedDocs, docIndex, allChunks, documentId) ==
    IF docIndex >= Len(limitedDocs) THEN allChunks
    ELSE LET doc == limitedDocs[docIndex + 1]
             pageChunks == SplitDocuments(doc.text, [source |-> doc.source])
             added == [c \in 1..Len(pageChunks) |->
                          [pageContent |-> pageChunks[c].pageContent,
                           metadata |-> Merge(pageChunks[c].metadata,
                              [documentId |-> documentId,
                               chunkIndex |-> Len(allChunks) + c - 1,
                               pageIndex |-> docIndex,
                               pageChunkIndex |-> c - 1,
                               url |-> doc.source,
                               baseUrl |-> SeedUrl])]]
         IN PageChunks(limitedDocs, docIndex + 1, allChunks \o added, documentId)

\* processWebsiteURL(url, title, options) once the loader returned docs
ProcessWebsiteURL(docs, maxPages, documentId) ==
    LET limitedDocs == IF maxPages # 0 THEN SubSeq(docs, 1, Min(maxPages, Len(docs))) ELSE docs
        allChunks == PageChunks(limitedDocs, 0, <<>>, documentId)
    IN [id |-> documentId, title |-> "Website: example.com", contentType |-> "url",
        chunks |-> allChunks,
        totalPages |-> Len(limitedDocs), totalChunks |-> Len(allChunks),
        crawledUrls |-> [i \in 1..Len(limitedDocs) |-> limitedDocs[i].source]]

\* POST /api/documents/url
PostUrl(u, url, docs, maxPages, tags, apiKey, fault) ==
    IF u = NoUser THEN Respond(Unauthorized("url"))
    ELSE IF url.text = <<>> THEN Respond(BadRequest("url", u))
    ELSE IF IsBlank(url.text) THEN Respond(BadRequest("url", u))
    ELSE IF ~url.wellFormed THEN Respond(BadRequest("url", u))
    ELSE IF Len(docs) = 0
    THEN Respond([op |-> "url", user |-> u, status |-> 500, documentId |-> NoDocId,
                  details |-> MsgNoContent, chunks |-> <<>>, written |-> {}])
    ELSE /\ nextId <= MaxDocs
         /\ LET doc == ProcessWebsiteURL(docs, maxPages, nextId)
                chunks == IF Len(tags) > 0 THEN ApplyTags(doc.chunks, tags) ELSE doc.chunks
            IN StoreProcessedDocument("url", u, doc, chunks, apiKey, fault, Submitted("url", url.text))

\* ------------------------------------------------ /api/documents/{id}
IsUuid(id) == id \in Nat \ {BadId}

\* qdrantClient.delete / scroll address the collection without provisioning it: the
\* error they throw, <<>> if none
StoreCallError(fault, exists) ==
    IF fault = "store" THEN MsgStoreDown
    ELSE IF ~exists THEN MsgNoCollection
    ELSE <<>>

DeleteDocumentValidateFirst(u, documentId, fault) ==
    IF ~IsUuid(documentId) THEN Respond(BadRequest("delete", u))
    ELSE IF u = NoUser THEN Respond(Unauthorized("delete"))
    ELSE IF StoreCallError(fault, collectionExists) # <<>>
    THEN Respond([op |-> "delete", user |-> u, status |-> 500, documentId |-> documentId,
                  details |-> StoreCallError(fault, collectionExists), removed |-> 0])
    ELSE /\ store' = RemainingAfterDelete(store, u, documentId)
         /\ last' = [op |-> "delete", user |-> u, status |-> 200, documentId |-> documentId,
                     removed |-> Cardinality(store \ store')]
         /\ UNCHANGED <<collectionExists, envApiKey, nextId>>

\* DELETE /api/documents/{id}
DeleteDocument(u, documentId, fault) ==
    IF u = NoUser THEN Respond(Unauthorized("delete"))
    ELSE IF ~IsUuid(documentId) THEN Respond(BadRequest("delete", u))
    ELSE IF StoreCallError(fault, collectionExists) # <<>>
    THEN Respond([op |-> "delete", user |-> u, status |-> 500, documentId |-> documentId,
                  details |-> StoreCallError(fault, collectionExists), removed |-> 0])
    ELSE /\ store' = RemainingAfterDelete(store, u, documentId)
         /\ last' = [op |-> "delete", user |-> u, status |-> 200, documentId |-> documentId,
                     removed |-> Cardinality(store \ store')]
         /\ UNCHANGED <<collectionExists, envApiKey, nextId>>

\* deleteUserDocuments(userId) without a documentId, called directly
DeleteAllForUser(u, fault) ==
    IF StoreCallError(fault, collectionExists) # <<>>
    THEN Respond([op |-> "deleteAll", user |-> u, status |-> 500,
                  details |-> StoreCallError(fault, collectionExists), removed |-> 0])
    ELSE /\ store' = RemainingAfterDelete(store, u, NoDocId)
         /\ last' = [op |-> "deleteAll", user |-> u, status |-> 200,
                     removed |-> Cardinality(store \ store')]
         /\ UNCHANGED <<collectionExists, envApiKey, nextId>>

ScrollLimit == 100

\* qdrantClient.scroll: up to limit matching points, in the store's own order
RECURSIVE Page(_, _)
Page(cand, n) ==
    IF n = 0 \/ cand = {} THEN {<<>>}
    ELSE UNION {{<<p>> \o r : r \in Page(cand \ {p}, n - 1)} : p \in cand}

QdrantScroll(points, filter, limit) == Page(Matching(points, filter), limit)

\* GET /api/documents/{id}: the payload keeps the text under "content", so the
\* lookup of payload.pageContent yields ''
GetDocument(u, documentId, fault) ==
    IF u = NoUser THEN Respond(Unauthorized("get"))
    ELSE IF StoreCallError(fault, collectionExists) # <<>>
    THEN Respond([op |-> "get", user |-> u, status |-> 500, documentId |-> documentId,
                  details |-> StoreCallError(fault, collectionExists), chunks |-> <<>>])
    ELSE \E points \in QdrantScroll(store, UserDocFilter(u, documentId), ScrollLimit) :
            LET searchResults == [i \in 1..Len(points) |->
                                     [metadata |-> points[i].metadata, pageContent |-> <<>>]]
            IN IF Len(searchResults) = 0
               THEN Respond([op |-> "get", user |-> u, status |-> 404,
                            documentId |-> documentId, chunks |-> <<>>])
               ELSE Respond([op |-> "get", user |-> u, status |-> 200, documentId |-> documentId,
                            chunksCount |-> Len(searchResults),
                            chunks |-> [i \in 1..Len(searchResults) |->
                                           [content |-> searchResults[i].pageContent,
                                            metadata |-> searchResults[i].metadata]]])

\* ------------------------------------------------------ /api/documents
DefaultLimit == 50
EmptyQuery == <<>>
AnyContentType == ""

\* the filter of the listing: the caller's userId and, if given, the content type
ListFilter(userId, contentType) ==
    UserFilter(userId)
        \cup (IF contentType # AnyContentType THEN {<<"contentType", contentType>>} ELSE {})

RECURSIVE DocumentMap(_, _, _)
\* the loop over searchResults from result i on: one item per documentId in order of
\* first appearance, counting its chunks
DocumentMap(searchResults, i, items) ==
    IF i > Len(searchResults) THEN items
    ELSE LET metadata == searchResults[i].metadata
         IN IF ~Has(metadata, "documentId") THEN DocumentMap(searchResults, i + 1, items)
            ELSE IF \E j \in 1..Len(items) : items[j].id = metadata.documentId
            THEN DocumentMap(searchResults, i + 1,
                     [j \in 1..Len(items) |->
                         IF items[j].id = metadata.documentId
                         THEN [items[j] EXCEPT !.chunksCount = @ + 1] ELSE items[j]])
            ELSE DocumentMap(searchResults, i + 1,
                     Append(items,
                            [id |-> metadata.documentId,
                             contentType |-> IF Has(metadata, "contentType")
                                             THEN metadata.contentType ELSE "document",
                             chunksCount |-> 1]))

RECURSIVE NewestFirst(_)
\* sort by metadata.createdAt, newest first; document ids are handed out in order of
\* creation, so the newest item is the one with the greatest id
NewestFirst(items) ==
    IF items = <<>> THEN <<>>
    ELSE LET j == CHOOSE k \in 1..Len(items) : \A o \in 1..Len(items) : items[k].id >= items[o].id
         IN <<items[j]>> \o NewestFirst(SubSeq(items, 1, j - 1) \o SubSeq(items, j + 1, Len(items)))

ManualFilterNone(searchResults, userId) == searchResults

\* the fallback's in-memory filter: doc.metadata?.userId === userId
ManualFilter(searchResults, userId) ==
    SeqFilter(searchResults,
              {d \in Range(searchResults) :
                  Has(d.metadata, "userId") /\ d.metadata.userId = userId})

\* the searches of the listing, each outcome as [results, fallback]: the filtered
\* search; when it fails for a missing index ("index", "indexThenSearch") the search
\* without filter, narrowed in memory to the caller; nothing when a search fails
\* otherwise
ListSearch(points, userId, k, contentType, fault) ==
    IF fault \in {"embed", "search"} THEN {[results |-> <<>>, fallback |-> FALSE]}
    ELSE IF fault = "indexThenSearch" THEN {[results |-> <<>>, fallback |-> TRUE]}
    ELSE IF fault = "index"
    THEN {[results |-> ManualFilter(found, userId), fallback |-> TRUE] :
             found \in SimilaritySearch(points, EmptyQuery, k, NoFilter)}
    ELSE {[results |-> found, fallback |-> FALSE] :
             found \in SimilaritySearch(points, EmptyQuery, k, ListFilter(userId, contentType))}

\* GET /api/documents?limit&offset&contentType; a failing search is answered with an
\* empty list
ListDocuments(u, limit, offset, contentType, fault) ==
    IF u = NoUser THEN Respond(Unauthorized("list"))
    ELSE IF InitializeCollectionThrows(fault)
    THEN Respond([op |-> "list", user |-> u, status |-> 500, details |-> MsgStoreDown])
    ELSE IF FinalApiKey(NoKey, envApiKey) = NoKey
    THEN /\ collectionExists' = TRUE
         /\ last' = [op |-> "list", user |-> u, status |-> 500,
                     details |-> MsgKeyRequiredForStore]
         /\ UNCHANGED <<envApiKey, store, nextId>>
    ELSE \E search \in ListSearch(store, u, limit + offset, contentType, fault) :
            LET searchResults == search.results
                allDocuments == DocumentMap(searchResults, 1, <<>>)
                paginatedDocuments ==
                    SubSeq(allDocuments, offset + 1, Min(offset + limit, Len(allDocuments)))
            IN /\ collectionExists' = TRUE
               /\ last' = [op |-> "list", user |-> u, status |-> 200,
                           documents |-> NewestFirst(paginatedDocuments),
                           totalCount |-> Len(allDocuments),
                           limit |-> limit, offset |-> offset, contentType |-> contentType,
                           searchResults |-> searchResults, fallback |-> search.fallback,
                           fault |-> fault]
               /\ UNCHANGED <<envApiKey, store, nextId>>

\* ------------------------------------------------------- RAG query engine
DefaultScoreThreshold == 70
StreamScoreThreshold == 70
SourceSliceLength == 200
HighScoreThreshold == 90
QueryFaults == {"none", "store", "search", "gen"}
\* caller-supplied filters of the streaming query
StreamFilters == {NoFilter, {<<"source", "user_input">>}, {<<"contentType", "note">>}}
\* content increments of a generation stream; an increment may be empty
GenStreams == {<<IncSky, <<>>, IncBlue>>, <<IncBlue, IncBlue>>}
\* a consumer that pulls this many units reads every stream of the model to its end
AllUnits == 4
\* the generation stream fails after delivering this many increments, or not at all
NoFail == -1
FailPoints == {NoFail, 0, 2}

\* relevantDocs.filter(doc => !(doc.score !== undefined && doc.score < threshold))
ScoreFilter(relevantDocs, threshold) ==
    SeqFilter(relevantDocs,
              {d \in Range(relevantDocs) : ~(Has(d, "score") /\ d.score < threshold)})

ShouldIncludeSourcesCaseSensitive(answer, filteredDocs) ==
    /\ ~Includes(answer, PhraseNotEnough)
    /\ ~Includes(answer, PhraseDontKnow)
    /\ Len(filteredDocs) > 0

\* the test deciding whether sources are attached
ShouldIncludeSources(answer, filteredDocs) ==
    /\ ~Includes(ToLowerCase(answer), PhraseNotEnough)
    /\ ~Includes(ToLowerCase(answer), PhraseDontKnow)
    /\ Len(filteredDocs) > 0

\* an error thrown to the caller; cause is the message of the underlying error
Thrown(message, cause, provisioned, genCalls) ==
    [threw |-> TRUE, message |-> message, cause |-> cause, provisioned |-> provisioned,
     genCalls |-> genCalls, docs |-> <<>>, context |-> <<>>]

WrappedBare(cause) == cause

\* executeRAGQuery, catch: new Error(`RAG query failed: ${error.message}`)
Wrapped(cause) == RAGFailedPrefix \o cause

\* executeRAGQuery: the set of its possible outcomes on the stored points.  The
\* filter option of RAGQuery is not among the destructured parameters: it is not read
ExecuteRAGQuery(points, question, userId, apiKey, env, maxResults, scoreThreshold, includeMetadata, filter, fault) ==
    IF apiKey = NoKey THEN {Thrown(MsgKeyRequired, MsgKeyRequired, FALSE, 0)}
    ELSE IF InitializeCollectionThrows(fault)
    THEN {Thrown(Wrapped(MsgStoreDown), MsgStoreDown, FALSE, 0)}
    ELSE IF fault = "search" THEN {Thrown(Wrapped(MsgEmbedFailed), MsgEmbedFailed, TRUE, 0)}
    ELSE UNION {
        LET filteredDocs == ScoreFilter(relevantDocs, scoreThreshold)
            context == [i \in 1..Len(filteredDocs) |->
                           [content |-> filteredDocs[i].pageContent,
                            metadata |-> filteredDocs[i].metadata]]
        IN IF Len(filteredDocs) = 0
           THEN {[threw |-> FALSE, provisioned |-> TRUE, answer |-> NoInfoAnswer,
                  sources |-> <<>>, genCalls |-> 0, docs |-> filteredDocs, context |-> <<>>]}
           ELSE IF fault = "gen"
           THEN {Thrown(Wrapped(MsgGenFailed), MsgGenFailed, TRUE, 1)}
           ELSE {[threw |-> FALSE, provisioned |-> TRUE, answer |-> answer,
                  sources |-> IF ShouldIncludeSources(answer, filteredDocs)
                              THEN [i \in 1..Len(filteredDocs) |->
                                      [content |-> Slice(filteredDocs[i].pageContent,
                                                         SourceSliceLength) \o Ellipsis,
                                       metadata |-> IF includeMetadata
                                                    THEN filteredDocs[i].metadata ELSE <<>>]]
                              ELSE <<>>,
                  genCalls |-> 1, docs |-> filteredDocs, context |-> context] :
                 answer \in GeneratedAnswers}
        : relevantDocs \in SimilaritySearch(points, question, maxResults, UserFilter(userId))}

\* POST /api/query
PostQuery(u, question, apiKey, maxResults, scoreThreshold, includeMetadata, fault) ==
    IF u = NoUser THEN Respond(Unauthorized("query"))
    ELSE IF question = "" THEN Respond(BadRequest("query", u))
    ELSE \E r \in ExecuteRAGQuery(store, question, u, apiKey, envApiKey, maxResults,
                                  scoreThreshold, includeMetadata, NoFilter, fault) :
           /\ collectionExists' = (collectionExists \/ r.provisioned)
           /\ last' = Merge(r, [op |-> "query", user |-> u, question |-> question,
                                status |-> IF r.threw THEN 500 ELSE 200,
                                scoreThreshold |-> scoreThreshold,
                                includeMetadata |-> includeMetadata,
                                maxResults |-> maxResults])
           /\ UNCHANGED <<envApiKey, store, nextId>>

\* a caller of executeRAGQuery that passes the filter option of RAGQuery
CallQuery(u, question, apiKey, maxResults, filter, fault) ==
    \E r \in ExecuteRAGQuery(store, question, u, apiKey, envApiKey, maxResults,
                              DefaultScoreThreshold, TRUE, filter, fault) :
       /\ collectionExists' = (collectionExists \/ r.provisioned)
       /\ last' = Merge(r, [op |-> "call", user |-> u, question |-> question,
                            filter |-> filter, maxResults |-> maxResults])
       /\ UNCHANGED <<envApiKey, store, nextId>>

NonEmptyUnitsUnfiltered(increments) == increments

RECURSIVE NonEmptyUnits(_)
\* for await (chunk of stream) if (chunk.content) yield chunk.content
NonEmptyUnits(increments) ==
    IF increments = <<>> THEN <<>>
    ELSE IF Head(increments) # <<>> THEN <<Head(increments)>> \o NonEmptyUnits(Tail(increments))
    ELSE NonEmptyUnits(Tail(increments))

\* executeRAGQueryStream, catch: yield `Error: ${error.message}`
StreamError(cause) == ErrorPrefix \o cause

\* the units a full consumption receives; cause is the message of the error caught
\* (<<>> if none), increments is what the generation stream delivered before it
Streamed(units, cause, increments, docs, context, genCalls, provisioned) ==
    [threw |-> FALSE, units |-> units, cause |-> cause, increments |-> increments,
     docs |-> docs, context |-> context, genCalls |-> genCalls, provisioned |-> provisioned]

\* executeRAGQueryStream: the set of its possible outcomes when consumed to the end
ExecuteRAGQueryStream(points, question, userId, apiKey, env, maxResults, filter, fault) ==
    IF apiKey = NoKey THEN {Thrown(MsgKeyRequired, MsgKeyRequired, FALSE, 0)}
    ELSE IF InitializeCollectionThrows(fault)
    THEN {Streamed(<<StreamError(MsgStoreDown)>>, MsgStoreDown, <<>>, <<>>, <<>>, 0, FALSE)}
    ELSE IF fault = "search"
    THEN {Streamed(<<StreamError(MsgEmbedFailed)>>, MsgEmbedFailed, <<>>, <<>>, <<>>, 0, TRUE)}
    ELSE UNION {
        LET filteredDocs == ScoreFilter(relevantDocs, StreamScoreThreshold)
            context == [i \in 1..Len(filteredDocs) |-> filteredDocs[i].pageContent]
        IN IF Len(filteredDocs) = 0
           THEN {Streamed(<<NoInfoAnswer>>, <<>>, <<>>, filteredDocs, <<>>, 0, TRUE)}
           ELSE IF fault = "gen"
           THEN {Streamed(<<StreamError(MsgGenFailed)>>, MsgGenFailed, <<>>,
                          filteredDocs, context, 1, TRUE)}
           ELSE {IF failAt = NoFail
                 THEN Streamed(NonEmptyUnits(increments), <<>>, increments,
                               filteredDocs, context, 1, TRUE)
                 ELSE Streamed(NonEmptyUnits(SubSeq(increments, 1, failAt))
                                  \o <<StreamError(MsgGenFailed)>>,
                               MsgGenFailed, SubSeq(increments, 1, failAt),
                               filteredDocs, context, 1, TRUE) :
                 increments \in GenStreams, failAt \in FailPoints}
        : relevantDocs \in SimilaritySearch(points, question, maxResults, filter)}

\* a caller consuming executeRAGQueryStream for an authenticated user: it pulls at
\* most `pulls` units (at least one) and then stops; the generator body runs up to
\* the yield of the last unit pulled, so the retrieval and the opening of the
\* generation stream have happened and the error of a later increment is not met
QueryStream(u, question, apiKey, maxResults, filter, fault, pulls) ==
    \E r \in ExecuteRAGQueryStream(store, question, u, apiKey, envApiKey, maxResults,
                                   filter, fault) :
       /\ collectionExists' = (collectionExists \/ r.provisioned)
       /\ last' = Merge(Merge(r, [op |-> "stream", user |-> u, question |-> question,
                                  filter |-> filter, maxResults |-> maxResults,
                                  pulls |-> pulls]),
                        IF r.threw THEN <<>>
                        ELSE [delivered |-> SubSeq(r.units, 1, Min(pulls, Len(r.units)))])
       /\ UNCHANGED <<envApiKey, store, nextId>>


\* ------------------------------------------------------------ requests
\* POST /api/documents/note: accepted notes, under every fault for the long one,
\* and one request per rejection
NoteRequests ==
    {[u |-> u, content |-> TextOf(MaxChunks), apiKey |-> UserKey, fault |-> f] :
        u \in Users, f \in IngestFaults}
    \cup {[u |-> NoUser, content |-> TextOf(1), apiKey |-> UserKey, fault |-> "none"],
          [u |-> NoUser, content |-> EmptyText, apiKey |-> NoKey, fault |-> "none"],
          [u |-> "u1", content |-> EmptyText, apiKey |-> UserKey, fault |-> "none"],
          [u |-> "u1", content |-> BlankText, apiKey |-> UserKey, fault |-> "none"],
          [u |-> "u1", content |-> TextOf(1), apiKey |-> NoKey, fault |-> "none"]}

\* POST /api/documents/upload: PDFs whose loader metadata may name a userId, the
\* other supported types with texts that split into no chunk, an unsupported type
UploadRequests ==
    {[u |-> u, fileType |-> PdfType, text |-> FileText, loaderMetadata |-> m,
      tags |-> <<"fact">>, apiKey |-> k, fault |-> "none"] :
        u \in Users, m \in ExtractorMetadata, k \in {NoKey, UserKey}}
    \cup {[u |-> "u1", fileType |-> PdfType, text |-> FileText,
           loaderMetadata |-> [source |-> "blob"], tags |-> NoTags, apiKey |-> UserKey,
           fault |-> f] : f \in IngestFaults \ {"none"}}
    \cup {[u |-> u, fileType |-> t, text |-> x, loaderMetadata |-> [source |-> "blob"],
           tags |-> NoTags, apiKey |-> UserKey, fault |-> "none"] :
             u \in {NoUser, "u2"}, t \in {PlainType, DocxType, "image/png"},
             x \in {EmptyText, BlankText}}

\* POST /api/documents/url
UrlRequests ==
    {[u |-> u, url |-> GoodUrl, docs |-> Crawl(MaxPages), maxPages |-> n, apiKey |-> NoKey,
      fault |-> "none"] : u \in Users, n \in {0, DefaultMaxPages}}
    \cup {[u |-> "u2", url |-> GoodUrl, docs |-> Crawl(MaxPages), maxPages |-> 1,
           apiKey |-> UserKey, fault |-> f] : f \in IngestFaults \ {"none"}}
    \cup {[u |-> "u1", url |-> GoodUrl, docs |-> Crawl(0), maxPages |-> DefaultMaxPages,
           apiKey |-> UserKey, fault |-> "none"],
          [u |-> NoUser, url |-> GoodUrl, docs |-> Crawl(MaxPages), maxPages |-> DefaultMaxPages,
           apiKey |-> UserKey, fault |-> "none"]}
    \cup {[u |-> w, url |-> b, docs |-> Crawl(0), maxPages |-> DefaultMaxPages,
           apiKey |-> UserKey, fault |-> "none"] : w \in {"u1", NoUser}, b \in BadUrls}

\* requests on /api/documents/{id}: every id the model hands out and a malformed one
IdRequests ==
    {[u |-> u, documentId |-> d, fault |-> "none"] : u \in Users, d \in DocIds \cup {BadId}}
    \cup {[u |-> NoUser, documentId |-> 1, fault |-> "none"],
          [u |-> NoUser, documentId |-> BadId, fault |-> "store"],
          [u |-> "u1", documentId |-> 1, fault |-> "store"]}

\* GET /api/documents
ListRequests ==
    {[u |-> u, limit |-> DefaultLimit, offset |-> 0, contentType |-> AnyContentType,
      fault |-> "none"] : u \in Users \cup {NoUser}}
    \cup {[u |-> "u1", limit |-> 1, offset |-> o, contentType |-> c, fault |-> "none"] :
             o \in {0, 1}, c \in {AnyContentType, "note"}}
    \cup {[u |-> "u1", limit |-> DefaultLimit, offset |-> 0, contentType |-> "note",
           fault |-> "none"]}
    \cup {[u |-> w, limit |-> DefaultLimit, offset |-> 0, contentType |-> AnyContentType,
           fault |-> "index"] : w \in Users}
    \cup {[u |-> "u1", limit |-> 1, offset |-> 0, contentType |-> "note", fault |-> f] :
             f \in {"index", "indexThenSearch"}}
    \cup {[u |-> w, limit |-> DefaultLimit, offset |-> 0, contentType |-> AnyContentType,
           fault |-> f] : w \in {"u2", NoUser}, f \in {"store", "search"}}

\* POST /api/query
QueryRequests ==
    {[u |-> u, question |-> p[1], apiKey |-> UserKey, maxResults |-> p[2],
      scoreThreshold |-> p[3], includeMetadata |-> p[4], fault |-> "none"] :
        u \in Users,
        p \in {<<SkyQuestion, 3, DefaultScoreThreshold, TRUE>>, <<SeaQuestion, 1, HighScoreThreshold, FALSE>>}}
    \cup {[u |-> "u1", question |-> SkyQuestion, apiKey |-> UserKey, maxResults |-> 3,
           scoreThreshold |-> DefaultScoreThreshold, includeMetadata |-> TRUE, fault |-> f] :
             f \in QueryFaults}
    \cup {[u |-> a[1], question |-> a[2], apiKey |-> a[3], maxResults |-> 3,
           scoreThreshold |-> DefaultScoreThreshold, includeMetadata |-> TRUE,
           fault |-> "none"] :
             a \in {<<NoUser, SkyQuestion, UserKey>>, <<NoUser, "", NoKey>>,
                    <<"u1", "", UserKey>>,
                    <<"u1", SkyQuestion, NoKey>>}}

\* direct calls of executeRAGQuery with a filter option
CallRequests ==
    {[u |-> u, question |-> SkyQuestion, apiKey |-> UserKey, maxResults |-> 3, filter |-> f,
      fault |-> "none"] : u \in {"u1"}, f \in StreamFilters}
    \cup {[u |-> "u2", question |-> SeaQuestion, apiKey |-> UserKey, maxResults |-> 1,
           filter |-> NoFilter, fault |-> f] : f \in {"store", "gen"}}

\* calls of executeRAGQueryStream; the consumer reads to the end or stops after one unit
StreamRequests ==
    {[u |-> a[1], question |-> a[2], apiKey |-> UserKey, maxResults |-> 3, filter |-> NoFilter,
      fault |-> "none", pulls |-> AllUnits] :
        a \in {<<"u1", SkyQuestion>>, <<"u1", SeaQuestion>>, <<"u2", SkyQuestion>>}}
    \cup {[u |-> "u1", question |-> SkyQuestion, apiKey |-> UserKey, maxResults |-> 3,
           filter |-> f, fault |-> "none", pulls |-> AllUnits] : f \in StreamFilters \ {NoFilter}}
    \cup {[u |-> "u1", question |-> SkyQuestion, apiKey |-> UserKey, maxResults |-> 1,
           filter |-> NoFilter, fault |-> p[1], pulls |-> p[2]] :
             p \in (QueryFaults \X {AllUnits}) \cup ({"none", "gen"} \X {1})}
    \cup {[u |-> "u1", question |-> SkyQuestion, apiKey |-> NoKey, maxResults |-> 3,
           filter |-> NoFilter, fault |-> "none", pulls |-> AllUnits]}

\* ------------------------------------------------------- specification
\* a handler that runs alone, from its request to its response: no call is in flight,
\* and initializeCollection, where it ran, has created every payload index
RunsAlone ==
    /\ inflight' = inflight
    /\ indexes' = IF collectionExists' THEN PayloadIndexes ELSE indexes

Note ==
    /\ \E r \in NoteRequests : PostNote(r.u, r.content, NoTags, r.apiKey, r.fault)
    /\ RunsAlone
Upload ==
    /\ \E r \in UploadRequests :
          PostUpload(r.u, r.fileType, r.text, r.loaderMetadata, r.tags, r.apiKey, r.fault)
    /\ RunsAlone
Url ==
    /\ \E r \in UrlRequests :
          PostUrl(r.u, r.url, r.docs, r.maxPages, NoTags, r.apiKey, r.fault)
    /\ RunsAlone
Delete ==
    /\ \E r \in IdRequests : DeleteDocument(r.u, r.documentId, r.fault)
    /\ RunsAlone
DeleteAll ==
    /\ \E u \in Users, fault \in {"none", "store"} : DeleteAllForUser(u, fault)
    /\ RunsAlone
Get ==
    /\ \E r \in IdRequests : GetDocument(r.u, r.documentId, r.fault)
    /\ RunsAlone
\* equally ranked chunks come back in any order, so a search for more chunks than
\* MaxListed is explored on stores of at most MaxListed points
MaxListed == 4
List ==
    /\ \E r \in ListRequests :
          /\ r.limit + r.offset <= MaxListed \/ Cardinality(store) <= MaxListed
          /\ ListDocuments(r.u, r.limit, r.offset, r.contentType, r.fault)
    /\ RunsAlone
Query ==
    /\ \E r \in QueryRequests :
          PostQuery(r.u, r.question, r.apiKey, r.maxResults, r.scoreThreshold,
                    r.includeMetadata, r.fault)
    /\ RunsAlone
Call ==
    /\ \E r \in CallRequests :
          CallQuery(r.u, r.question, r.apiKey, r.maxResults, r.filter, r.fault)
    /\ RunsAlone
Stream ==
    /\ \E r \in StreamRequests :
          QueryStream(r.u, r.question, r.apiKey, r.maxResults, r.filter, r.fault, r.pulls)
    /\ RunsAlone

Ingest == Note \/ Upload \/ Url
Remove == Delete \/ DeleteAll

Next == Ingest \/ Remove \/ Get \/ List \/ Query \/ Call \/ Stream

Spec == Init /\ [][Next]_vars

\* the document endpoints alone, the query endpoint alone, the streaming query alone
NextDocuments == Ingest \/ Remove \/ Get \/ List
NextQuery == Ingest \/ Remove \/ Query \/ Call
NextStream == Ingest \/ Remove \/ Stream
SpecDocuments == Init /\ [][NextDocuments]_vars
SpecQuery == Init /\ [][NextQuery]_vars
SpecStream == Init /\ [][NextStream]_vars

\* the seven HTTP endpoints together
NextEndpoints == Ingest \/ Delete \/ Get \/ List \/ Query
SpecEndpoints == Init /\ [][NextEndpoints]_vars

TypeOK == /\ collectionExists \in BOOLEAN /\ nextId \in 1..(MaxDocs + 1)

\* ------------------------------------------- recursive crawl of a website
\* a URL is its host and its path segments; slash: the URL text ends with "/"
SeedHost == "example.com"
OtherHost == "other.example"
UrlOf(host, path, slash) == [host |-> host, path |-> path, slash |-> slash]
Seed == UrlOf(SeedHost, <<>>, TRUE)

\* the href of an anchor as written in the page: "https://host/path",
\* "//host/path" or "/path"
AbsLink(host, path, slash) == [form |-> "absolute", host |-> host, path |-> path, slash |-> slash]
ProtoRelLink(host, path, slash) == [form |-> "protocolRelative", host |-> host, path |-> path, slash |-> slash]
RelLink(path, slash) == [form |-> "relative", host |-> "", path |-> path, slash |-> slash]

\* what a fetch of the URL gives: ok FALSE when the fetch fails or times out
PageOf(ok, links, text) == [ok |-> ok, links |-> links, text |-> text]
Unreachable == PageOf(FALSE, <<>>, <<>>)

BlankParagraph == <<" ">>
\* a site maps the URLs that answer to their pages
PlainSite ==
    (Seed :> PageOf(TRUE, <<RelLink(<<"about">>, FALSE), RelLink(<<"docs">>, TRUE),
                             AbsLink(OtherHost, <<"x">>, FALSE)>>, <<HomePage>>))
    @@ (UrlOf(SeedHost, <<"about">>, FALSE) :> PageOf(TRUE, <<>>, <<AboutPage>>))
    @@ (UrlOf(SeedHost, <<"docs">>, TRUE) :>
           PageOf(TRUE, <<RelLink(<<"docs", "a">>, FALSE), RelLink(<<"about">>, FALSE)>>,
                  <<ContactPage, BlankParagraph, HomePage>>))
    @@ (UrlOf(SeedHost, <<"docs", "a">>, FALSE) :> PageOf(TRUE, <<>>, <<AboutPage>>))
    @@ (UrlOf(OtherHost, <<"x">>, FALSE) :> PageOf(TRUE, <<>>, <<ContactPage>>))
MirrorSite ==
    (Seed :> PageOf(TRUE, <<ProtoRelLink(OtherHost, <<"ad">>, FALSE),
                             RelLink(<<"about">>, FALSE)>>, <<HomePage>>))
    @@ (UrlOf(SeedHost, <<"about">>, FALSE) :> PageOf(TRUE, <<>>, <<AboutPage>>))
    @@ (UrlOf(OtherHost, <<"ad">>, FALSE) :> PageOf(TRUE, <<>>, <<ContactPage>>))
DownSite == (Seed :> Unreachable)
FlakySite ==
    (Seed :> PageOf(TRUE, <<RelLink(<<"about">>, FALSE), RelLink(<<"contact">>, FALSE)>>,
                    <<HomePage, AboutPage>>))
    @@ (UrlOf(SeedHost, <<"about">>, FALSE) :> Unreachable)
    @@ (UrlOf(SeedHost, <<"contact">>, FALSE) :> PageOf(TRUE, <<>>, <<ContactPage>>))
SinglePageSite == (Seed :> PageOf(TRUE, <<>>, <<HomePage>>))
\* a site with a page whose extracted text is whitespace only
EmptyPageSite ==
    (Seed :> PageOf(TRUE, <<RelLink(<<"about">>, FALSE), RelLink(<<"contact">>, FALSE)>>,
                    <<HomePage>>))
    @@ (UrlOf(SeedHost, <<"about">>, FALSE) :> PageOf(TRUE, <<>>, <<BlankParagraph>>))
    @@ (UrlOf(SeedHost, <<"contact">>, FALSE) :> PageOf(TRUE, <<>>, <<ContactPage>>))
SiteGraphs == {PlainSite, MirrorSite, DownSite, FlakySite, SinglePageSite, EmptyPageSite}

\* fetchWithTimeout + res.text(): the page, Unreachable for a URL that does not answer
Fetch(site, url) == IF url \in DOMAIN site THEN site[url] ELSE Unreachable

IsPrefix(p, s) == Len(p) <= Len(s) /\ SubSeq(s, 1, Len(p)) = p

\* RecursiveUrlLoader.getChildLinks: an "http..." link is kept when preventOutside is
\* off or the link starts with the base URL; a "//host/path" link gets the base's
\* protocol and is kept; any other link is resolved against the base and kept
GetChildLinks(links, base, preventOutside) ==
    LET resolved(l) == IF l.form = "relative" THEN UrlOf(base.host, l.path, l.slash)
                       ELSE UrlOf(l.host, l.path, l.slash)
        allowed(l) == IF l.form = "absolute"
                      THEN ~preventOutside \/ (l.host = base.host /\ IsPrefix(base.path, l.path))
                      ELSE TRUE
        kept == SeqFilter(links, {l \in Range(links) : allowed(l)})
    IN [i \in 1..Len(kept) |-> resolved(kept[i])]

\* RecursiveUrlLoader.getUrlAsDoc: the extracted text of the page under its URL
UrlAsDoc(site, url) == [source |-> url, text |-> Fetch(site, url).text]

RECURSIVE ChildUrlsRecursive(_, _, _, _, _, _)
\* RecursiveUrlLoader.getChildUrlsRecursive, for the child URLs still to visit of a
\* page at this depth: [docs, visited].  A child that does not answer is skipped; a
\* child whose URL ends with "/" is crawled in turn while depth + 1 < maxDepth
ChildUrlsRecursive(site, children, visited, depth, maxDepth, preventOutside) ==
    IF children = <<>> THEN [docs |-> <<>>, visited |-> visited]
    ELSE LET child == Head(children)
             seen == visited \cup {child}
             below == IF child.slash /\ depth + 1 < maxDepth /\ Fetch(site, child).ok
                      THEN ChildUrlsRecursive(site,
                               GetChildLinks(Fetch(site, child).links, child, preventOutside),
                               seen, depth + 1, maxDepth, preventOutside)
                      ELSE [docs |-> <<>>, visited |-> seen]
             own == IF child \in visited \/ ~Fetch(site, child).ok
                    THEN [docs |-> <<>>, visited |-> seen]
                    ELSE [docs |-> <<UrlAsDoc(site, child)>> \o below.docs,
                          visited |-> below.visited]
             rest == ChildUrlsRecursive(site, Tail(children), own.visited, depth, maxDepth,
                                        preventOutside)
         IN [docs |-> own.docs \o rest.docs, visited |-> rest.visited]

\* RecursiveUrlLoader.load: nothing when the seed does not answer, otherwise the
\* seed's document followed by those of the pages reached from it
LoaderLoad(site, url, maxDepth, preventOutside) ==
    IF ~Fetch(site, url).ok THEN <<>>
    ELSE IF maxDepth <= 0 THEN <<UrlAsDoc(site, url)>>
    ELSE <<UrlAsDoc(site, url)>>
            \o ChildUrlsRecursive(site, GetChildLinks(Fetch(site, url).links, url, preventOutside),
                                  {url}, 0, maxDepth, preventOutside).docs

WebsiteErrorAlwaysInvalid(isTypeError, message) == MsgInvalidUrl

\* processWebsiteURL, catch: a TypeError becomes the invalid-URL error, any other
\* error is wrapped
WebsiteError(isTypeError, message) ==
    IF isTypeError THEN MsgInvalidUrl ELSE UrlFailedPrefix \o message

DefaultMaxDepth == 2

\* processWebsiteURL(url, title, options): new URL(url) throws a TypeError on a
\* malformed url; an empty load throws the no-content error
ProcessWebsiteURLCall(url, site, maxDepth, maxPages, sameDomainOnly, documentId) ==
    IF ~url.wellFormed THEN [ok |-> FALSE, error |-> WebsiteError(TRUE, <<>>), loaded |-> 0]
    ELSE LET docs == LoaderLoad(site, Seed, maxDepth, sameDomainOnly)
         IN IF Len(docs) = 0
            THEN [ok |-> FALSE, error |-> WebsiteError(FALSE, MsgNoContentRaw), loaded |-> 0]
            ELSE [ok |-> TRUE, loaded |-> Len(docs),
                  doc |-> ProcessWebsiteURL(docs, maxPages, documentId)]

\* calls of processWebsiteURL: the seed text, the site behind it and the options
CrawlInputs ==
    {[op |-> "crawlInput", url |-> u, site |-> s, maxDepth |-> d, maxPages |-> n,
      sameDomainOnly |-> o] :
        u \in {GoodUrl}, s \in SiteGraphs, d \in {1, DefaultMaxDepth},
        n \in (0..MaxPages) \cup {DefaultMaxPages}, o \in BOOLEAN}
    \cup {[op |-> "crawlInput", url |-> u, site |-> s, maxDepth |-> DefaultMaxDepth,
           maxPages |-> DefaultMaxPages, sameDomainOnly |-> TRUE] :
             u \in BadUrls, s \in {PlainSite, DownSite}}

InitCrawl ==
    /\ collectionExists = FALSE
    /\ envApiKey = NoKey
    /\ store = {}
    /\ nextId = 1
    /\ indexes = {}
    /\ inflight = <<>>
    /\ last \in CrawlInputs

\* one call of processWebsiteURL on the drawn input
CrawlCall ==
    /\ last.op = "crawlInput"
    /\ last' = Merge(Merge(last, [op |-> "crawl"]),
                     ProcessWebsiteURLCall(last.url, last.site, last.maxDepth, last.maxPages,
                                           last.sameDomainOnly, nextId))
    /\ UNCHANGED <<collectionExists, envApiKey, store, nextId, indexes, inflight>>

NextCrawl == CrawlCall
SpecCrawl == InitCrawl /\ [][NextCrawl]_vars

\* ------------------------------------------------ the chunker on its own
\* splitDocumentIntoChunks(content, metadata): one Document through textSplitter
SplitDocumentIntoChunks(content, metadata) == SplitDocuments(content, metadata)

MaxParagraphs == 3
RECURSIVE TextsOfLen(_)
\* the texts of n paragraphs, each one of the notes or whitespace only
TextsOfLen(n) ==
    IF n = 0 THEN {<<>>}
    ELSE {Append(t, p) : t \in TextsOfLen(n - 1), p \in Range(NoteParagraphs) \cup {BlankParagraph}}
SplitTexts == UNION {TextsOfLen(n) : n \in 0..MaxParagraphs}

InitSplit ==
    /\ collectionExists = FALSE
    /\ envApiKey = NoKey
    /\ store = {}
    /\ nextId = 1
    /\ indexes = {}
    /\ inflight = <<>>
    /\ last \in {[op |-> "splitInput", text |-> t] : t \in SplitTexts}

\* one call of splitDocumentIntoChunks on the drawn text
SplitCall ==
    /\ last.op = "splitInput"
    /\ last' = [op |-> "split", text |-> last.text,
                chunks |-> SplitDocumentIntoChunks(last.text, [source |-> "user_input"])]
    /\ UNCHANGED <<collectionExists, envApiKey, store, nextId, indexes, inflight>>

NextSplit == SplitCall
SpecSplit == InitSplit /\ [][NextSplit]_vars

\* ------------------------------------------------------ concurrent calls
\* a call in flight: initializeCollection on its own (kind "init") or the note route
\* up to its store write (kind "ingest"); pc is the next await of the call
InitCall == [kind |-> "init", pc |-> "getCollections", status |-> "running"]
IngestCall(u, content) ==
    [kind |-> "ingest", pc |-> "process", status |-> "running", user |-> u,
     content |-> content, apiKey |-> UserKey]

\* chunks stored before the calls start: a note of u1 under document id 1
PriorPoints ==
    CreateVectorStoreFromDocuments(ProcessTextNote(<<GrassNote>>, "", 1).chunks, "u1",
                                   UserKey, NoKey, "none").points

\* store states the calls can start from: [exists, indexes, points, nextId]
StoreStates ==
    {[exists |-> FALSE, indexes |-> {}, points |-> {}, nextId |-> 1]}
    \cup {[exists |-> TRUE, indexes |-> ix, points |-> pts,
           nextId |-> IF pts = {} THEN 1 ELSE 2] :
             ix \in SUBSET PayloadIndexes, pts \in {{}, PriorPoints}}

\* the calls that run together: one or two provisionings, two ingestions of one user
ConcurrentCalls ==
    {<<InitCall>>, <<InitCall, InitCall>>}
    \cup {<<IngestCall("u1", TextOf(1)), IngestCall("u1", TextOf(MaxChunks))>>,
          <<IngestCall("u1", TextOf(1)), IngestCall("u1", TextOf(1))>>}

InitConcurrent ==
    /\ envApiKey = NoKey
    /\ last = [op |-> "init"]
    /\ inflight \in ConcurrentCalls
    /\ \E s \in StoreStates :
          /\ collectionExists = s.exists
          /\ indexes = s.indexes
          /\ store = s.points
          /\ nextId = s.nextId

\* the field of the createPayloadIndex call the position stands for
IndexField(pc) ==
    CASE pc = "indexUserId" -> "metadata.userId"
      [] pc = "indexContentType" -> "metadata.contentType"
      [] OTHER -> "metadata.documentId"

\* the position after the createPayloadIndex call, by kind of call
AfterIndex(pc, kind) ==
    CASE pc = "indexUserId" -> "indexContentType"
      [] pc = "indexContentType" -> "indexDocumentId"
      [] OTHER -> IF kind = "init" THEN "done" ELSE "embed"

Advance(i, fields) == inflight' = [inflight EXCEPT ![i] = Merge(inflight[i], fields)]

\* the route before the store call: processTextNote draws the document id
ProcessStep(i) ==
    /\ inflight[i].pc = "process"
    /\ nextId' = nextId + 1
    /\ Advance(i, [pc |-> "getCollections", before |-> store,
                   chunks |-> DocumentsWithUserId(
                                 ProcessTextNote(inflight[i].content, "", nextId).chunks,
                                 inflight[i].user)])
    /\ UNCHANGED <<collectionExists, envApiKey, store, last, indexes>>

\* initializeCollection: await qdrantClient.getCollections()
GetCollectionsStep(i) ==
    /\ inflight[i].pc = "getCollections"
    /\ Advance(i, [pc |-> IF collectionExists THEN "indexUserId" ELSE "createCollection",
                   created |-> FALSE,
                   before |-> IF Has(inflight[i], "before") THEN inflight[i].before ELSE store])
    /\ UNCHANGED <<collectionExists, envApiKey, store, nextId, last, indexes>>

\* initializeCollection: await qdrantClient.createCollection(...), which the store
\* refuses when the collection exists by now; the error leaves through the outer catch
CreateCollectionStep(i) ==
    /\ inflight[i].pc = "createCollection"
    /\ IF collectionExists
       THEN /\ Advance(i, [pc |-> "done", status |-> "failed", error |-> MsgCollectionExists])
            /\ UNCHANGED collectionExists
       ELSE /\ collectionExists' = TRUE
            /\ Advance(i, [pc |-> "indexUserId", created |-> TRUE])
    /\ UNCHANGED <<envApiKey, store, nextId, last, indexes>>

\* initializeCollection: one of the three createPayloadIndex calls; its error, if
\* any, is caught and logged
CreatePayloadIndexStep(i) ==
    /\ inflight[i].pc \in {"indexUserId", "indexContentType", "indexDocumentId"}
    /\ indexes' = indexes \cup {IndexField(inflight[i].pc)}
    /\ Advance(i, [pc |-> AfterIndex(inflight[i].pc, inflight[i].kind),
                   status |-> IF AfterIndex(inflight[i].pc, inflight[i].kind) = "done"
                              THEN "ok" ELSE "running"])
    /\ UNCHANGED <<collectionExists, envApiKey, store, nextId, last>>

\* QdrantVectorStore.fromDocuments: embeddings.embedDocuments of all chunks
EmbedStep(i) ==
    /\ inflight[i].pc = "embed"
    /\ Advance(i, [pc |-> "upsert"])
    /\ UNCHANGED <<collectionExists, envApiKey, store, nextId, last, indexes>>

UpsertReplacingUser(points, batch) ==
    {p \in points : \A b \in batch : p.metadata.userId # b.metadata.userId} \cup batch

\* qdrantClient.upsert: every point of the batch gets a fresh id, so the batch is added
Upsert(points, batch) == points \cup batch

\* QdrantVectorStore.fromDocuments: one upsert of the embedded chunks
UpsertStep(i) ==
    /\ inflight[i].pc = "upsert"
    /\ LET batch == {[content |-> inflight[i].chunks[c].pageContent,
                      metadata |-> inflight[i].chunks[c].metadata] :
                        c \in 1..Len(inflight[i].chunks)}
       IN /\ store' = Upsert(store, batch)
          /\ Advance(i, [pc |-> "done", status |-> "ok", written |-> batch])
    /\ UNCHANGED <<collectionExists, envApiKey, nextId, last, indexes>>

NextConcurrent ==
    \E i \in DOMAIN inflight :
        \/ ProcessStep(i)
        \/ GetCollectionsStep(i)
        \/ CreateCollectionStep(i)
        \/ CreatePayloadIndexStep(i)
        \/ EmbedStep(i)
        \/ UpsertStep(i)
SpecConcurrent == InitConcurrent /\ [][NextConcurrent]_vars

\* ------------------------------------------------------------- claims
\* C1: owner isolation of the non-streaming query.  After any ingestions and
\* deletions, every chunk a successful executeRAGQuery of user A puts into the
\* prompt context is a stored chunk whose userId is A, and every returned source
\* is the excerpt of such a chunk.
C1_OwnerIsolationQuery ==
    (last.op = "query" /\ last.status = 200) =>
        /\ \A i \in 1..Len(last.context) :
              /\ last.context[i] \in store
              /\ last.context[i].metadata.userId = last.user
        /\ \A i \in 1..Len(last.sources) :
              \E p \in store :
                 /\ p.metadata.userId = last.user
                 /\ last.sources[i].content = Slice(p.content, SourceSliceLength) \o Ellipsis
                 /\ last.sources[i].metadata \in {p.metadata, <<>>}

\* a query answered with sources while another user's chunks are stored
C1_Witness ==
    /\ last.op = "query" /\ last.status = 200
    /\ Len(last.sources) > 0 /\ Len(last.context) > 0
    /\ \E p \in store : p.metadata.userId # last.user

\* C2: owner isolation of the streaming query.  Whatever the caller-supplied
\* filter, the chunks executeRAGQueryStream of user A retrieves for the prompt
\* context all have stored userId A.
C2_OwnerIsolationStream ==
    (last.op = "stream" /\ ~last.threw) =>
        \A i \in 1..Len(last.docs) : last.docs[i].metadata.userId = last.user

\* C3: owner isolation of the read by id.  GET /documents/{d} answers 200 only
\* with chunks whose userId is the caller and whose documentId is d; issued by a
\* user other than the one whose chunks of d are stored, while the store answers,
\* it returns 404 and no chunk.
C3_ReadByIdIsolation ==
    (last.op = "get" /\ last.user # NoUser) =>
        /\ \A i \in 1..Len(last.chunks) :
              /\ last.chunks[i].metadata.userId = last.user
              /\ last.chunks[i].metadata.documentId = last.documentId
              /\ \E p \in store : p.metadata = last.chunks[i].metadata
        /\ (last.status = 200) =>
              Len(last.chunks) = Cardinality({p \in store :
                                     /\ p.metadata.userId = last.user
                                     /\ p.metadata.documentId = last.documentId})
        /\ (/\ \E p \in store : /\ p.metadata.documentId = last.documentId
                                /\ p.metadata.userId # last.user
            /\ ~\E p \in store : /\ p.metadata.documentId = last.documentId
                                 /\ p.metadata.userId = last.user
            /\ ~(last.status = 500 /\ last.details = MsgStoreDown))
              => (last.status = 404 /\ last.chunks = <<>>)

\* user B reads a document whose chunks user A stored, and gets 404
C3_Witness ==
    /\ last.op = "get" /\ last.status = 404 /\ last.user \in Users
    /\ \E p \in store : /\ p.metadata.documentId = last.documentId
                        /\ p.metadata.userId # last.user

\* C4: ownership stamping on write.  After a successful ingestion by user U
\* through note, upload or url, every chunk the request wrote carries userId U
\* (also when the incoming chunk metadata named a userId) and the documentId of
\* the response, and the number of chunks written is the response's chunksCount.
C4_OwnershipStamping ==
    (last.op \in {"note", "upload", "url"} /\ last.status = 200) =>
        /\ \A p \in last.written :
              /\ p.metadata.userId = last.user
              /\ p.metadata.documentId = last.documentId
        /\ Cardinality(last.written) = last.chunksCount
        /\ last.written = {p \in store : p.metadata.documentId = last.documentId}
        /\ \A i \in 1..Len(last.chunks) :
              \E p \in last.written :
                 /\ p.content = last.chunks[i].pageContent
                 /\ p.metadata.chunkIndex = last.chunks[i].metadata.chunkIndex

\* a successful upload whose extracted chunks already named another user
C4_Witness ==
    /\ last.op = "upload" /\ last.status = 200 /\ last.chunksCount > 0
    /\ \E i \in 1..Len(last.chunks) :
          /\ Has(last.chunks[i].metadata, "userId")
          /\ last.chunks[i].metadata.userId # last.user

\* C5: delete scope and frame.  A successful delete of (userId, documentId)
\* removes exactly the stored chunks matching both and leaves every other chunk
\* unchanged; a successful delete of userId alone removes exactly the chunks of
\* that user.
C5_DeleteScopeAndFrame ==
    [][/\ (last'.op = "delete" /\ last'.status = 200) =>
             store' = {p \in store : ~(/\ p.metadata.userId = last'.user
                                       /\ p.metadata.documentId = last'.documentId)}
       /\ (last'.op = "deleteAll" /\ last'.status = 200) =>
             store' = {p \in store : p.metadata.userId # last'.user}]_vars

\* a delete that removed chunks while another document of the same user stays
C5_Witness ==
    /\ last.op = "delete" /\ last.status = 200 /\ last.removed > 0
    /\ \E p \in store : /\ p.metadata.userId = last.user
                        /\ p.metadata.documentId # last.documentId

\* C6: idempotent delete.  A delete of a well-formed (userId, documentId), also
\* for a document that never existed, reports no error while the store is
\* reachable, and afterwards no chunk with that userId and documentId remains.
C6_IdempotentDelete ==
    (/\ last.op = "delete" /\ last.status \in {200, 500}
     /\ ~(last.status = 500 /\ last.details = MsgStoreDown)) =>
        /\ last.status = 200
        /\ ~\E p \in store : /\ p.metadata.userId = last.user
                             /\ p.metadata.documentId = last.documentId

\* C7: all-or-nothing ingestion.  When the embedding or the store write fails
\* the request reports failure and no chunk of the document is stored; a
\* document is stored with its whole chunk set or not at all.
C7_AllOrNothingIngestion ==
    (last.op \in {"note", "upload", "url"} /\ last.status \in {200, 500}) =>
        LET stored == {p \in store : p.metadata.documentId = last.documentId}
        IN /\ last.status = 500 => stored = {}
           /\ last.status = 200 => Cardinality(stored) = Len(last.chunks)
           /\ stored # {} => last.status = 200

\* an ingestion of several chunks whose embedding failed
C7_Witness ==
    /\ last.op \in {"note", "upload", "url"} /\ last.status = 500
    /\ last.details = MsgEmbedFailed
    /\ Len(last.chunks) >= 2

\* the caller owns no stored chunk whose relevance for the question reaches the threshold
OwnsNothingRelevant(u, q, threshold) ==
    \A p \in store : p.metadata.userId = u => Score(q, p.content) < threshold

\* C8: grounding refusal.  When nothing relevant is left for the caller (also
\* when the caller owns no related content), executeRAGQuery returns the fixed
\* answer with no sources, executeRAGQueryStream yields that one fixed unit,
\* and the generation service is not invoked.
C8_GroundingRefusal ==
    /\ (/\ last.op = "query" /\ last.status = 200
        /\ OwnsNothingRelevant(last.user, last.question, last.scoreThreshold)) =>
           /\ last.answer = NoInfoAnswer
           /\ last.sources = <<>>
           /\ last.genCalls = 0
    /\ (/\ last.op = "stream" /\ ~last.threw
        /\ OwnsNothingRelevant(last.user, last.question, StreamScoreThreshold)) =>
           /\ last.genCalls = 0
           /\ last.units \in {<<NoInfoAnswer>>, <<ErrorPrefix \o MsgStoreDown>>,
                              <<ErrorPrefix \o MsgEmbedFailed>>}

\* the answer contains the phrase at some position, letter case ignored
ContainsIgnoringCase(answer, phrase) ==
    \E k \in 0..(Len(answer) - Len(phrase)) :
       \A j \in 1..Len(phrase) : ToLowerChar(answer[k + j]) = ToLowerChar(phrase[j])

\* C9: source suppression.  In every response of executeRAGQuery, an answer
\* containing, in any letter case, "don't have enough information" or "don't
\* know" comes with no sources; any other answer comes with one source per chunk
\* that passed the score filter, in retrieval order.
C9_SourceSuppression ==
    (last.op = "query" /\ last.status = 200) =>
        IF \/ ContainsIgnoringCase(last.answer, PhraseNotEnough)
           \/ ContainsIgnoringCase(last.answer, PhraseDontKnow)
        THEN last.sources = <<>>
        ELSE /\ Len(last.sources) = Len(last.docs)
             /\ \A i \in 1..Len(last.docs) :
                   /\ last.sources[i].content =
                         Slice(last.docs[i].pageContent, SourceSliceLength) \o Ellipsis
                   /\ last.sources[i].metadata =
                         IF last.includeMetadata THEN last.docs[i].metadata ELSE <<>>
             /\ \A i \in 1..(Len(last.docs) - 1) :
                   Score(last.question, last.docs[i].pageContent)
                      >= Score(last.question, last.docs[i + 1].pageContent)

\* an answer in capitals that says it does not know, over retrieved chunks
C9_Witness ==
    /\ last.op = "query" /\ last.status = 200
    /\ last.answer = AnsShout /\ Len(last.docs) > 0 /\ last.sources = <<>>

\* C10: score threshold.  A retrieved chunk whose relevance for the question is
\* below scoreThreshold (0.7 on the streaming path) is never part of the prompt
\* context nor of the returned sources.
C10_ScoreThreshold ==
    /\ (last.op = "query" /\ last.status = 200) =>
          /\ \A i \in 1..Len(last.context) :
                Score(last.question, last.context[i].content) >= last.scoreThreshold
          /\ \A i \in 1..Len(last.sources) :
                \E j \in 1..Len(last.docs) :
                   /\ last.sources[i].content =
                         Slice(last.docs[j].pageContent, SourceSliceLength) \o Ellipsis
                   /\ Score(last.question, last.docs[j].pageContent) >= last.scoreThreshold
    /\ (last.op = "stream" /\ ~last.threw) =>
          \A i \in 1..Len(last.docs) :
             Score(last.question, last.docs[i].pageContent) >= StreamScoreThreshold

\* C11: extra metadata filter on query.  When executeRAGQuery is called with a
\* filter option, every chunk in the context and behind the sources matches the
\* caller's userId and every condition of that filter.
C11_ExtraFilterOnQuery ==
    (last.op = "call" /\ ~last.threw) =>
        \A i \in 1..Len(last.docs) :
           /\ last.docs[i].metadata.userId = last.user
           /\ MatchesFilter(last.docs[i], last.filter)

\* the failures of the query steps: store access, retrieval, generation
StepFailures == {MsgStoreDown, MsgEmbedFailed, MsgGenFailed}

C13_StreamErrorTermination ==
    (last.op = "stream") =>
        /\ ~last.threw
        /\ last.cause # <<>> =>
              /\ Len(last.units) > 0
              /\ last.units[Len(last.units)] = ErrorPrefix \o last.cause
              /\ \A i \in 1..(Len(last.units) - 1) : last.units[i] \in Range(last.increments)

\* units is increments without its empty entries, order and multiplicity kept
IsOrderedNonEmpty(units, increments) ==
    \E f \in [1..Len(units) -> 1..Len(increments)] :
       /\ \A i, j \in 1..Len(units) : i < j => f[i] < f[j]
       /\ \A i \in 1..Len(units) : units[i] = increments[f[i]] /\ units[i] # <<>>
       /\ \A k \in 1..Len(increments) :
             (\A i \in 1..Len(units) : f[i] # k) => increments[k] = <<>>

\* C14: streaming order.  The units yielded by executeRAGQueryStream (before a
\* terminal error unit, if any) are exactly the non-empty increments received
\* from the generation stream, in the order received; a consumer that stops
\* after a unit has received a prefix of them, and the call changes no stored
\* chunk and invokes generation at most once.
C14_StreamingOrder ==
    [][(last'.op = "stream" /\ ~last'.threw) =>
          /\ store' = store /\ nextId' = nextId
          /\ last'.genCalls <= 1
          /\ last'.genCalls = 1 =>
                IsOrderedNonEmpty(IF last'.cause = <<>> THEN last'.units
                                  ELSE SubSeq(last'.units, 1, Len(last'.units) - 1),
                                  last'.increments)
          /\ Len(last'.delivered) <= last'.pulls
          /\ \A i \in 1..Len(last'.delivered) : last'.delivered[i] = last'.units[i]]_vars

\* a generation stream with an empty increment, read by a consumer that stops
\* after the first unit
C14_Witness ==
    /\ last.op = "stream" /\ ~last.threw /\ last.genCalls = 1 /\ last.cause = <<>>
    /\ Len(last.increments) = 3 /\ Len(last.units) = 2
    /\ Len(last.delivered) = 1

\* C15  Crawl budget: processWebsiteURL called with maxPages = N returns a document
\* built from at most N pages: totalPages <= N, crawledUrls has at most N entries and
\* every chunk's pageIndex is below N.
C15_CrawlBudget ==
    (last.op = "crawl" /\ last.ok) =>
        /\ last.doc.totalPages <= last.maxPages
        /\ Len(last.doc.crawledUrls) <= last.maxPages
        /\ \A i \in 1..Len(last.doc.chunks) :
               last.doc.chunks[i].metadata.pageIndex < last.maxPages

\* C16  Crawl containment: with sameDomainOnly true and the seed on host H, every page
\* URL recorded in the result (each chunk's url, each entry of crawledUrls) has host H.
C16_CrawlContainment ==
    (last.op = "crawl" /\ last.ok /\ last.sameDomainOnly) =>
        /\ \A i \in 1..Len(last.doc.crawledUrls) : last.doc.crawledUrls[i].host = Seed.host
        /\ \A i \in 1..Len(last.doc.chunks) : last.doc.chunks[i].metadata.url.host = Seed.host

\* a URL of the site that some page links to and that does not answer
HasFailingPage(site) == \E u \in DOMAIN site : u # Seed /\ ~site[u].ok

IsEmptyOrBlank(text) == \A i \in 1..Len(text) : IsBlank(text[i])

\* C18  Empty input is rejected: a note or an uploaded text/plain or text/markdown file
\* whose text is empty or whitespace-only is not processed: the request fails before
\* the store call and writes no chunk.
C18_EmptyInputRejected ==
    (/\ last.op \in {"note", "upload"}
     /\ last.status \in {200, 500}
     /\ last.request.kind \in {"note", PlainType, MarkdownType})
        => ~IsEmptyOrBlank(last.request.text)

\* the contents of the chunks in chunkIndex order (chunks of one text share no content)
Reconstructed(chunks) == [i \in 1..Len(chunks) |-> chunks[i].pageContent]

\* C19  Chunk coverage: for every text T, putting the chunks of T together in
\* chunkIndex order yields T exactly, and splitting T again yields the same chunks.
C19_ChunkCoverage ==
    last.op = "split" =>
        /\ Reconstructed(last.chunks) = last.text
        /\ last.chunks = SplitDocumentIntoChunks(last.text, [source |-> "user_input"])


Endpoints == {"upload", "note", "url", "list", "get", "delete", "query"}

\* C20  Authentication first: on every endpoint a request without an authenticated user
\* is answered 401 and nothing else: whatever else the request holds (malformed id,
\* empty content, unsupported file type, failing store) it is not validated, the answer
\* carries no result of a store read or model call, and the store, the collection and
\* the id counter are left as they were.
C20_AuthenticationFirst ==
    [][(last'.op \in Endpoints /\ last'.user = NoUser)
          => /\ last' = Unauthorized(last'.op)
             /\ last'.status = 401
             /\ UNCHANGED <<collectionExists, envApiKey, store, nextId>>]_vars

C20_Witness ==
    /\ last = Unauthorized("delete")
    /\ store # {}
    /\ collectionExists

\* C21  Document-ID validation: on GET and DELETE /documents/{id} a request of an
\* authenticated user whose id is not a UUID is answered 400; only requests with a
\* well-formed id get as far as the store (answers 200, 404 or 500).
C21_DocumentIdValidation ==
    (last.op \in {"get", "delete"} /\ last.status \in {200, 404, 500})
        => IsUuid(last.documentId)

\* the content type of the ProcessedDocument a stored chunk was made for, told by the
\* fields its processor stamps: websites baseUrl, PDF and DOCX files fileName, notes
\* and text files neither
IngestedContentType(metadata) ==
    IF Has(metadata, "baseUrl") THEN "url"
    ELSE IF Has(metadata, "fileName") THEN "document"
    ELSE "note"

\* the ids of the documents of the user that were ingested with the content type
OwnedOfType(points, userId, contentType) ==
    {p.metadata.documentId :
        p \in {q \in points : /\ q.metadata.userId = userId
                              /\ IngestedContentType(q.metadata) = contentType}}

\* C22  Content type is preserved through storage: GET /documents reports every listed
\* document with the content type it was ingested with, and with the contentType
\* parameter (and a page large enough for everything) it lists exactly the caller's
\* documents of that type.
C22_ContentTypePreserved ==
    (last.op = "list" /\ last.status = 200) =>
        /\ \A i \in 1..Len(last.documents) :
              \A p \in store :
                  (p.metadata.userId = last.user /\ p.metadata.documentId = last.documents[i].id)
                     => last.documents[i].contentType = IngestedContentType(p.metadata)
        /\ (last.contentType # AnyContentType /\ last.limit = DefaultLimit /\ last.offset = 0)
              => {last.documents[i].id : i \in 1..Len(last.documents)}
                    = OwnedOfType(store, last.user, last.contentType)

\* the response reports that the request failed for lack of an OpenAI API key
FailedForLackOfKey(resp) ==
    \/ Has(resp, "error") /\ resp.error = MsgKeyRequired
    \/ Has(resp, "message") /\ resp.message = MsgKeyRequired
    \/ Has(resp, "details") /\ resp.details \in {MsgKeyRequired, MsgKeyRequiredForDocs,
                                                  MsgKeyRequiredForStore}

\* C23  API-key resolution: on the ingestion and query endpoints a request proceeds
\* with its own apiKey or else with the process-wide default, so while a default is
\* configured no request fails for lack of a key; and no request changes the default.
C23_ApiKeyResolution ==
    [][/\ envApiKey' = envApiKey
       /\ (last'.op \in {"note", "upload", "url", "query"} /\ envApiKey # NoKey)
             => ~FailedForLackOfKey(last')]_vars

\* C24  Source fidelity: every entry of the sources returned by executeRAGQuery has
\* as content the content of a chunk stored for the caller.
C24_SourceFidelity ==
    (last.op \in {"query", "call"} /\ Has(last, "threw") /\ ~last.threw) =>
        \A i \in 1..Len(last.sources) :
            \E p \in store : /\ p.metadata.userId = last.user
                             /\ p.content = last.sources[i].content

\* both ingestion requests that ran concurrently have reported success
BothIngestionsSucceeded ==
    /\ Len(inflight) = 2
    /\ \A i \in DOMAIN inflight : inflight[i].kind = "ingest" /\ inflight[i].status = "ok"

\* the document id the call's chunks were stamped with
DocumentIdOf(call) == {call.chunks[c].metadata.documentId : c \in 1..Len(call.chunks)}

\* C25  Concurrent ingestion is additive: when two ingestion requests of one user run
\* concurrently, under every interleaving of their steps, and both report success,
\* the store holds every chunk of both documents, the two documents have different
\* ids, and every chunk that was stored before either request is still there unchanged.
C25_ConcurrentIngestionAdditive ==
    BothIngestionsSucceeded =>
        /\ \A i \in DOMAIN inflight :
              /\ inflight[i].written \subseteq store
              /\ Cardinality(inflight[i].written) = Len(inflight[i].chunks)
              /\ inflight[i].before \subseteq store
        /\ DocumentIdOf(inflight[1]) \cap DocumentIdOf(inflight[2]) = {}

C25_Witness ==
    /\ BothIngestionsSucceeded
    /\ PriorPoints # {}
    /\ PriorPoints \subseteq inflight[1].before
    /\ inflight[1].written \cap inflight[2].before = {}
    /\ inflight[2].written \cap inflight[1].before = {}
    /\ Cardinality(store) = Cardinality(PriorPoints) + Len(inflight[1].chunks) + Len(inflight[2].chunks)

\* C26  Idempotent provisioning: initializeCollection, from any store state and under
\* any interleaving of two concurrent calls, raises no error, creates the collection
\* at most once and leaves the stored chunks as they were.
C26_IdempotentProvisioning ==
    (inflight # <<>> /\ \A i \in DOMAIN inflight : inflight[i].kind = "init") =>
        /\ \A i \in DOMAIN inflight : inflight[i].status # "failed"
        /\ Cardinality({i \in DOMAIN inflight :
                           Has(inflight[i], "created") /\ inflight[i].created}) <= 1
        /\ \A i \in DOMAIN inflight : Has(inflight[i], "before") => store = inflight[i].before

\* C27  Missing-index fallback: when the filtered search of GET /documents fails with
\* a missing-index error the answer is still a success; the results the response is
\* built from are those of the search without filter that belong to the caller, and
\* every listed document is a document of the caller, counted with the caller's chunks.
C27_MissingIndexFallback ==
    (last.op = "list" /\ Has(last, "fallback") /\ last.fallback) =>
        /\ last.status = 200
        /\ \A i \in 1..Len(last.searchResults) :
              /\ last.searchResults[i].metadata.userId = last.user
              /\ \E p \in store : /\ p.metadata = last.searchResults[i].metadata
                                  /\ p.content = last.searchResults[i].pageContent
        /\ \A i \in 1..Len(last.documents) :
              /\ \A p \in store : p.metadata.documentId = last.documents[i].id
                                     => p.metadata.userId = last.user
              /\ last.documents[i].chunksCount
                    <= Cardinality({p \in store : /\ p.metadata.documentId = last.documents[i].id
                                                  /\ p.metadata.userId = last.user})
              /\ last.documents[i].chunksCount >= 1

C27_Witness ==
    /\ last.op = "list"
    /\ Has(last, "fallback")
    /\ last.fallback
    /\ Len(last.documents) >= 1
    /\ \E p \in store : p.metadata.userId \notin {last.user}

\* C28  Website chunk indexing: in a document returned by processWebsiteURL the chunk
\* at position i has chunkIndex i (counted from 0 across pages), pageChunkIndex starts
\* at 0 on each page and goes up by 1 within it, pageIndex never decreases along the
\* sequence, and each chunk is a piece of the text of the one page its pageIndex and
\* url name.
C28_WebsiteChunkIndexing ==
    (last.op = "crawl" /\ last.ok) =>
        LET chunks == last.doc.chunks
            meta(i) == chunks[i].metadata
        IN \A i \in 1..Len(chunks) :
              /\ meta(i).chunkIndex = i - 1
              /\ meta(i).pageChunkIndex =
                    IF i > 1 /\ meta(i - 1).pageIndex = meta(i).pageIndex
                    THEN meta(i - 1).pageChunkIndex + 1 ELSE 0
              /\ i > 1 => meta(i - 1).pageIndex <= meta(i).pageIndex
              /\ meta(i).pageIndex \in 0..(Len(last.doc.crawledUrls) - 1)
              /\ meta(i).url = last.doc.crawledUrls[meta(i).pageIndex + 1]
              /\ chunks[i].pageContent \in Range(Fetch(last.site, meta(i).url).text)

C28_Witness ==
    /\ last.op = "crawl"
    /\ last.ok
    /\ Len(last.doc.chunks) >= 4
    /\ \E i \in 1..Len(last.doc.chunks) :
          /\ last.doc.chunks[i].metadata.pageChunkIndex = 1
          /\ last.doc.chunks[i].metadata.pageIndex >= 1

\* C29  Page accounting of a crawl: for a crawl that retrieves P pages, P within
\* maxPages, the document has totalPages = P, P crawledUrls, totalChunks equal to the
\* number of its chunks, and the pageIndex values of its chunks are exactly 0..P-1.
C29_PageAccounting ==
    (last.op = "crawl" /\ last.ok /\ last.loaded <= last.maxPages) =>
        /\ last.doc.totalPages = last.loaded
        /\ Len(last.doc.crawledUrls) = last.loaded
        /\ last.doc.totalChunks = Len(last.doc.chunks)
        /\ {last.doc.chunks[i].metadata.pageIndex : i \in 1..Len(last.doc.chunks)}
              = 0..(last.loaded - 1)

\* the ids of the documents the user owns, of the content type if one is given
OwnedDocuments(points, userId, contentType) ==
    IF contentType = AnyContentType
    THEN {p.metadata.documentId : p \in {q \in points : q.metadata.userId = userId}}
    ELSE OwnedOfType(points, userId, contentType)

\* C30  List pagination: for every limit and offset, GET /documents returns totalCount
\* equal to the number of distinct documents the caller owns (of the content type if one
\* is given), whatever the limit, the offset and the number of chunks per document, and
\* returns as many distinct documents of the caller as the positions offset ..
\* offset+limit-1 of that full list hold.
C30_ListPagination ==
    (last.op = "list" /\ last.status = 200 /\ last.fault = "none") =>
        LET owned == OwnedDocuments(store, last.user, last.contentType)
            N == Cardinality(owned)
            ids == {last.documents[i].id : i \in 1..Len(last.documents)}
        IN /\ last.totalCount = N
           /\ Len(last.documents) = IF N <= last.offset THEN 0 ELSE Min(last.limit, N - last.offset)
           /\ Cardinality(ids) = Len(last.documents)
           /\ ids \subseteq owned
====
